---------------------------- MODULE Spec2Model ----------------------------
(***************************************************************************)
(* A model of mozilla-conduit/commit-telemetry-service: the review-system  *)
(* classifier (committelemetry/classifier.py), the attachment filter it    *)
(* uses, the classification that telemetry.py performs when it builds a    *)
(* ping payload, concurrent invocations of the classifier, the diffstat    *)
(* scan of the specification (patch.py), and the Pulse message handler     *)
(* (pulse.py).                                                             *)
(*                                                                         *)
(* Text is modelled as a sequence of one-character strings, so that the    *)
(* regular expressions of the source are computed character by character.  *)
(***************************************************************************)
EXTENDS Integers, Sequences, FiniteSets, TLC

VARIABLES
    revision_json,       \* the hgweb changeset JSON handed to the classifier
    pc,                  \* position inside the running function
    bug_id,              \* bug id parsed from the text (0: none yet)
    att_response,        \* what Bugzilla answered to the attachment request
    hist_response,       \* what Bugzilla answered to the history request
    attachments,         \* the bug's attachment list, once fetched
    bug_history,         \* the bug's history, once fetched
    review_attachments,  \* collect_review_attachments(attachments)
    fetches,             \* the provider calls made so far, in order
    result,              \* the ReviewSystem returned ("none": not returned)
    raised,              \* exception leaving the function ("none": none)
    payload,             \* the ping payload built by payload_for_changeset
    calls,               \* the local variables of each concurrent invocation
    patchtext,           \* the raw patch text handed to diffstat, as lines
    parser,              \* diffstat's position, state and counts
    body,                \* the decoded body of the Pulse message
    no_send,             \* the no_send argument of process_push_message
    pulse_pc,            \* position inside process_push_message
    todo,                \* the changesets of the push still to be processed
    events,              \* the calls process_push_message has made, in order
    command              \* what the dump_telemetry command printed, and its exit

classifier_vars ==
    <<revision_json, pc, bug_id, att_response, hist_response, attachments,
      bug_history, review_attachments, fetches, result, raised, payload>>

concurrent_vars == <<calls>>

patch_vars == <<patchtext, parser>>

pulse_vars == <<body, no_send, pulse_pc, todo, events>>

tool_vars == <<command>>

\* the command has not come to its end
NoCommand == [printed |-> "none", exit_status |-> "none", propagated |-> "none"]

\* what a single invocation of the classifier or of payload_for_changeset
\* never touches
outside_classifier == <<concurrent_vars, patch_vars, pulse_vars, tool_vars>>

outside_concurrent == <<classifier_vars, patch_vars, pulse_vars, tool_vars>>

outside_patch == <<classifier_vars, concurrent_vars, pulse_vars, tool_vars>>

outside_pulse == <<classifier_vars, concurrent_vars, patch_vars, tool_vars>>

vars == <<classifier_vars, concurrent_vars, patch_vars, pulse_vars, tool_vars>>

ConcurrentIdle == calls = <<>>

PatchIdle == patchtext = <<>> /\ parser = <<>>

PulseIdle ==
    /\ body = <<>>
    /\ no_send = FALSE
    /\ pulse_pc = "idle"
    /\ todo = <<>>
    /\ events = <<>>

\* nothing but the single invocation is running
ToolIdle == command = NoCommand

OutsideIdle == ConcurrentIdle /\ PatchIdle /\ PulseIdle /\ ToolIdle

-----------------------------------------------------------------------------
(* Bounds of the model. *)

MaxParents == 2

MaxFetched == 1

MaxAttachments == 3

-----------------------------------------------------------------------------
(* Characters. *)

UpperCase == <<"A", "B", "C", "D", "E", "F", "G", "H", "I", "J", "K", "L", "M",
               "N", "O", "P", "Q", "R", "S", "T", "U", "V", "W", "X", "Y", "Z">>

LowerCase == <<"a", "b", "c", "d", "e", "f", "g", "h", "i", "j", "k", "l", "m",
               "n", "o", "p", "q", "r", "s", "t", "u", "v", "w", "x", "y", "z">>

Digits == <<"0", "1", "2", "3", "4", "5", "6", "7", "8", "9">>

Range(f) == {f[i] : i \in DOMAIN f}

\* re.IGNORECASE: both sides are compared in lower case.
Lower(c) ==
    IF c \in Range(UpperCase)
    THEN LowerCase[CHOOSE k \in DOMAIN UpperCase : UpperCase[k] = c]
    ELSE c

LowerStr(s) == [i \in DOMAIN s |-> Lower(s[i])]

IsDigit(c) == c \in Range(Digits)

\* \w
IsWord(c) == c \in Range(UpperCase) \cup Range(LowerCase) \cup Range(Digits) \cup {"_"}

\* \s
IsSpace(c) == c \in {" ", "\t", "\n", "\r"}

IsWordAt(s, i) == i \in DOMAIN s /\ IsWord(s[i])

\* \b between the characters i-1 and i
WordBoundary(s, i) == IsWordAt(s, i - 1) # IsWordAt(s, i)

\* the literal lit occurs in s at position i
MatchAt(s, i, lit) ==
    /\ i >= 1
    /\ i + Len(lit) - 1 <= Len(s)
    /\ \A k \in 1..Len(lit) : s[i + k - 1] = lit[k]

DigitVal(c) == (CHOOSE k \in DOMAIN Digits : Digits[k] = c) - 1

RECURSIVE Num(_, _, _)
Num(s, p, q) == IF q < p THEN 0 ELSE 10 * Num(s, p, q - 1) + DigitVal(s[q])

\* the end of the longest run of digits of s starting at p (p - 1: no digit)
DigitsEnd(s, p) ==
    CHOOSE q \in (p - 1)..Len(s) :
        /\ \A m \in p..q : IsDigit(s[m])
        /\ ~(q + 1 \in DOMAIN s /\ IsDigit(s[q + 1]))

\* the first position from j on that holds no white space
SkipSpaces(s, j) ==
    CHOOSE k \in j..(Len(s) + 1) :
        /\ \A m \in j..(k - 1) : IsSpace(s[m])
        /\ ~(k \in DOMAIN s /\ IsSpace(s[k]))

-----------------------------------------------------------------------------
(* classifier.py: constants. *)

ATTACHMENT_TYPE_MOZREVIEW == "text/x-review-board-request"

ATTACHMENT_TYPE_GITHUB == "text/x-github-request"

ATTACHMENT_TYPE_PHABRICATOR == "text/x-phabricator-request"

ReviewSystem == {"phabricator", "mozreview", "bmo", "no_bug", "review_unneeded",
                 "unknown", "not_applicable"}

WPT_SYNC_BOT == "moz-wptsync-bot <wptsync@mozilla.com>"


-----------------------------------------------------------------------------
(* classifier.py: the regular expressions and the predicates over the text. *)

\* BACKOUT_RE = ^back(ed|ing|) out   (re.IGNORECASE)
BackoutAlternatives == {<<"e", "d">>, <<"i", "n", "g">>, <<>>}

\* BACKOUT_RE compiled without re.IGNORECASE
has_backout_markers_mut(revision_description) ==
    /\ MatchAt(revision_description, 1, <<"b", "a", "c", "k">>)
    /\ \E alt \in BackoutAlternatives :
          MatchAt(revision_description, 5, alt \o <<" ", "o", "u", "t", " ">>)

has_backout_markers(revision_description) ==
    LET s == LowerStr(revision_description)
    IN  /\ MatchAt(s, 1, <<"b", "a", "c", "k">>)
        /\ \E alt \in BackoutAlternatives :
              MatchAt(s, 5, alt \o <<" ", "o", "u", "t", " ">>)

\* len(revision_json['parents']) > 1
has_merge_markers(rev) == Len(rev.parents) > 1

\* a search for the substring, without the word boundaries
has_no_bug_marker_substring(summary) ==
    \E i \in DOMAIN summary :
        MatchAt(LowerStr(summary), i, <<"n", "o", " ", "b", "u", "g">>)

\* NOBUG_RE = \bno bug\b   (re.IGNORECASE)
has_no_bug_marker(summary) ==
    LET s == LowerStr(summary)
    IN  \E i \in DOMAIN s :
            /\ MatchAt(s, i, <<"n", "o", " ", "b", "u", "g">>)
            /\ WordBoundary(s, i)
            /\ WordBoundary(s, i + 6)

\* UPLIFT_RE = \ba=\w+\b   (re.IGNORECASE); the longest run of \w always ends
\* at a word boundary, so one \w after the '=' is what decides the match.
has_uplift_markers(summary) ==
    LET s == LowerStr(summary)
    IN  \E i \in DOMAIN s :
            /\ WordBoundary(s, i)
            /\ MatchAt(s, i, <<"a", "=">>)
            /\ IsWordAt(s, i + 2)

\* WPT_SYNC_BOT_RE = \[wpt PR \d+\](.*) a=testonly   (case-sensitive)
WptRegexMatches(summary) ==
    \E i \in DOMAIN summary :
        /\ MatchAt(summary, i, <<"[", "w", "p", "t", " ", "P", "R", " ">>)
        /\ LET q == DigitsEnd(summary, i + 8)
           IN  /\ q >= i + 8
               /\ MatchAt(summary, q + 1, <<"]">>)
               /\ \E k \in (q + 2)..Len(summary) :
                     /\ \A m \in (q + 2)..(k - 1) : summary[m] # "\n"
                     /\ MatchAt(summary, k, <<" ", "a", "=", "t", "e", "s", "t",
                                              "o", "n", "l", "y">>)

\* the [wpt PR n] tag is enough, a=testonly is not asked for
has_wpt_uplift_markers_tagonly(commit_author, summary) ==
    \/ commit_author = WPT_SYNC_BOT
    \/ \E i \in DOMAIN summary :
          /\ MatchAt(summary, i, <<"[", "w", "p", "t", " ", "P", "R", " ">>)
          /\ DigitsEnd(summary, i + 8) >= i + 8
          /\ MatchAt(summary, DigitsEnd(summary, i + 8) + 1, <<"]">>)

has_wpt_uplift_markers(commit_author, summary) ==
    WptRegexMatches(summary) \/ commit_author = WPT_SYNC_BOT

\* str.splitlines(): the lines of s, without their line breaks.
\* (of the line boundaries of str.splitlines, the ones that occur here;
\* "\r\n" is one boundary)
IsLineBreak(c) == c \in {"\n", "\r"}

RECURSIVE splitlines(_)
splitlines(s) ==
    IF s = <<>> THEN <<>>
    ELSE IF \E i \in DOMAIN s : IsLineBreak(s[i])
    THEN LET i == CHOOSE i \in DOMAIN s :
                     IsLineBreak(s[i]) /\ \A j \in 1..(i - 1) : ~IsLineBreak(s[j])
             next == IF s[i] = "\r" /\ MatchAt(s, i + 1, <<"\n">>)
                     THEN i + 2 ELSE i + 1
         IN  <<SubSeq(s, 1, i - 1)>> \o splitlines(SubSeq(s, next, Len(s)))
    ELSE <<s>>

split_summary(s) == splitlines(s)[1]

\* mozautomation.commitparser.BUG_RE, its alternative bug\s*#?(\d+)(?=\b)
\* (re.IGNORECASE): the bug id read at position i of s, 0 when none is.
BugAt(s, i) ==
    IF ~MatchAt(LowerStr(s), i, <<"b", "u", "g">>) THEN 0
    ELSE LET j == SkipSpaces(s, i + 3)
             p == IF MatchAt(s, j, <<"#">>) THEN j + 1 ELSE j
             q == DigitsEnd(s, p)
         IN  IF q >= p /\ ~IsWordAt(s, q + 1) THEN Num(s, p, q) ELSE 0

\* parse_bugs(s): the bug ids of s, in the order they appear.
parse_bugs(s) ==
    LET at == {i \in DOMAIN s : BugAt(s, i) > 0}
        nth(k) == CHOOSE i \in at : Cardinality({j \in at : j <= i}) = k
    IN  [k \in 1..Cardinality(at) |-> BugAt(s, nth(k))]

-----------------------------------------------------------------------------
(* classifier.py: the predicates over the bug data. *)

is_patch(a) ==
    \/ a.is_patch = 1
    \/ a.content_type \in {ATTACHMENT_TYPE_MOZREVIEW, ATTACHMENT_TYPE_GITHUB,
                           ATTACHMENT_TYPE_PHABRICATOR}

\* the filter written with the is_patch() helper, which knows MozReview
IsReviewAttachment_mut(a) == a.is_obsolete = 0 /\ is_patch(a)

\* the condition of the list comprehension of collect_review_attachments
IsReviewAttachment(a) ==
    /\ a.is_obsolete = 0
    /\ \/ a.content_type \in {ATTACHMENT_TYPE_GITHUB, ATTACHMENT_TYPE_PHABRICATOR}
       \/ a.is_patch = 1

RECURSIVE collect_review_attachments(_)
collect_review_attachments(atts) ==
    IF atts = <<>> THEN <<>>
    ELSE (IF IsReviewAttachment(Head(atts)) THEN <<Head(atts)>> ELSE <<>>)
         \o collect_review_attachments(Tail(atts))

has_phab_markers(atts) ==
    LET patches == SelectSeq(atts, is_patch)
    IN  \E k \in DOMAIN patches :
            patches[k].content_type = ATTACHMENT_TYPE_PHABRICATOR

\* str.split(','): the pieces of s between its commas (always at least one).
RECURSIVE split_comma(_)
split_comma(s) ==
    IF \E i \in DOMAIN s : s[i] = ","
    THEN LET i == CHOOSE i \in DOMAIN s :
                     s[i] = "," /\ \A j \in 1..(i - 1) : s[j] # ","
         IN  <<SubSeq(s, 1, i - 1)>> \o split_comma(SubSeq(s, i + 1, Len(s)))
    ELSE <<s>>

REVIEW_PLUS == <<"r", "e", "v", "i", "e", "w", "+">>

IsPlainPatch(a) == a.is_patch = 1

\* only the first of the added flags is looked at
has_bmo_patch_review_markers_mut(atts, history) ==
    LET patches == SelectSeq(atts, IsPlainPatch)
    IN  IF patches = <<>> THEN FALSE
        ELSE \E g \in DOMAIN history :
                \E c \in DOMAIN history[g].changes :
                    LET change == history[g].changes[c]
                    IN  /\ change.field_name = "flagtypes.name"
                        /\ REVIEW_PLUS = split_comma(change.added)[1]

has_bmo_patch_review_markers(atts, history) ==
    LET patches == SelectSeq(atts, IsPlainPatch)
    IN  IF patches = <<>> THEN FALSE
        ELSE \E g \in DOMAIN history :
                \E c \in DOMAIN history[g].changes :
                    LET change == history[g].changes[c]
                    IN  /\ change.field_name = "flagtypes.name"
                        /\ REVIEW_PLUS \in Range(split_comma(change.added))

-----------------------------------------------------------------------------
(* classifier.py: fetching the bug data from Bugzilla. *)

\* What requests_retry_session().get(url) can do: raise ConnectionError (the
\* connection fails), raise RetryError (a status of http.py's status_forcelist
\* is answered until the retries are used up), or return a response.
NoData == <<>>

BugzillaFailures ==
    {[transport |-> t, status |-> 0, error_key |-> FALSE, data |-> NoData] :
        t \in {"ConnectionError", "RetryError"}}
    \cup
    {[transport |-> "response", status |-> st[1], error_key |-> st[2],
      data |-> NoData] :
        st \in ({200, 401, 404} \X BOOLEAN) \ {<<200, FALSE>>}}

BugzillaAnswers(datas) ==
    {[transport |-> "response", status |-> 200, error_key |-> FALSE, data |-> d] :
        d \in datas}

Raises(exc) == [raises |-> exc, value |-> NoData]

Returns(v) == [raises |-> "none", value |-> v]

\* without the workaround of lines 88-89: the status is taken as answered
fetch_attachments_noworkaround(response) ==
    IF response.transport # "response" THEN Raises(response.transport)
    ELSE IF response.status = 401 THEN Raises("NotAuthorized")
    ELSE IF response.status >= 400 THEN Raises("HTTPError")
    ELSE Returns(response.data)

fetch_attachments(response) ==
    IF response.transport # "response" THEN Raises(response.transport)
    ELSE LET status_code == IF response.error_key THEN 401 ELSE response.status
         IN  IF status_code = 401 THEN Raises("NotAuthorized")
             ELSE IF status_code >= 400 THEN Raises("HTTPError")
             ELSE Returns(response.data)

fetch_bug_history(response) ==
    IF response.transport # "response" THEN Raises(response.transport)
    ELSE LET status_code == IF response.error_key THEN 401 ELSE response.status
         IN  IF status_code = 401 THEN Raises("NotAuthorized")
             ELSE IF status_code >= 400 THEN Raises("HTTPError")
             ELSE Returns(response.data)

-----------------------------------------------------------------------------
(* classifier.py: determine_review_system, as the decisions it takes. *)

\* the 'no bug' check placed before the merge check
LocalDecision_mut(rev) ==
    LET summary == split_summary(rev.desc)
    IN  IF has_backout_markers(summary) THEN "review_unneeded"
        ELSE IF has_no_bug_marker(summary) THEN "no_bug"
        ELSE IF has_merge_markers(rev) THEN "not_applicable"
        ELSE IF has_uplift_markers(summary) THEN "review_unneeded"
        ELSE IF has_wpt_uplift_markers(rev.user, summary) THEN "review_unneeded"
        ELSE IF parse_bugs(summary) = <<>> THEN "unknown"
        ELSE "fetch"

\* the uplift check left out
LocalDecision_nouplift(rev) ==
    LET summary == split_summary(rev.desc)
    IN  IF has_backout_markers(summary) THEN "review_unneeded"
        ELSE IF has_merge_markers(rev) THEN "not_applicable"
        ELSE IF has_no_bug_marker(summary) THEN "no_bug"
        ELSE IF has_wpt_uplift_markers(rev.user, summary) THEN "review_unneeded"
        ELSE IF parse_bugs(summary) = <<>> THEN "unknown"
        ELSE "fetch"

\* Lines 235-271: the checks made on the changeset alone. "fetch" stands for
\* going on to the bug data.
LocalDecision(rev) ==
    LET summary == split_summary(rev.desc)
    IN  IF has_backout_markers(summary) THEN "review_unneeded"
        ELSE IF has_merge_markers(rev) THEN "not_applicable"
        ELSE IF has_no_bug_marker(summary) THEN "no_bug"
        ELSE IF has_uplift_markers(summary) THEN "review_unneeded"
        ELSE IF has_wpt_uplift_markers(rev.user, summary) THEN "review_unneeded"
        ELSE IF parse_bugs(summary) = <<>> THEN "unknown"
        ELSE "fetch"

\* no except clause for NotAuthorized: a 401 is one more HTTP error
ExceptDecision_mut(exc) ==
    IF exc \in {"NotAuthorized", "HTTPError"} THEN "unknown" ELSE "raise"

\* Lines 276-289: the except clauses around the two fetches. "raise" stands
\* for an exception that no clause catches.
ExceptDecision(exc) ==
    IF exc = "NotAuthorized" THEN "no_bug"
    ELSE IF exc = "HTTPError" THEN "unknown"
    ELSE "raise"

\* the BMO patch check placed before the Phabricator check
BugDataDecision_mut(filtered, history) ==
    IF has_bmo_patch_review_markers(filtered, history) THEN "bmo"
    ELSE IF has_phab_markers(filtered) THEN "phabricator"
    ELSE "unknown"

\* Lines 293-307: the decision taken on the filtered attachments.
BugDataDecision(filtered, history) ==
    IF has_phab_markers(filtered) THEN "phabricator"
    ELSE IF has_bmo_patch_review_markers(filtered, history) THEN "bmo"
    ELSE "unknown"

-----------------------------------------------------------------------------
(* The inputs. *)

SummaryPrefixes ==
    { <<>>,
      <<"B", "a", "c", "k", "e", "d", " ", "o", "u", "t", " ">>,
      <<"B", "A", "C", "K", "I", "N", "G", " ", "O", "U", "T", " ">>,
      <<"b", "a", "c", "k", " ", "o", "u", "t", " ">>,
      <<"b", "a", "c", "k", "o", "u", "t", " ", "o", "u", "t", " ">>,
      <<"x">> }

SummaryMiddles ==
    { <<>>,
      <<"B", "u", "g", " ", "1">>,
      <<"N", "o", " ", "b", "u", "g">>,
      <<"[", "w", "p", "t", " ", "P", "R", " ", "1", "]">> }

SummarySuffixes ==
    { <<>>,
      <<" ", "b", "u", "g", " ", "2">>,
      <<"a", "=", "x">>,
      <<" ", "a", "=", "t", "e", "s", "t", "o", "n", "l", "y">>,
      <<"x">> }

\* hg refuses an empty commit message: a summary is never empty.
Summaries ==
    {p \o m \o s : p \in SummaryPrefixes, m \in SummaryMiddles,
                   s \in SummarySuffixes} \ {<<>>}

\* what follows the summary line in the description
Bodies == { <<>>, <<"\n", "N", "o", " ", "b", "u", "g">> }

Authors == {WPT_SYNC_BOT, "Test User <author@mozilla.com>", "moz-wptsync-bot"}

ParentIds == <<"83f4bc25", "123abc", "456def", "789abc">>

ParentLists == {SubSeq(ParentIds, 1, n) : n \in 0..MaxParents}

Revisions ==
    [node : {"445d1a7b"}, desc : {s \o b : s \in Summaries, b \in Bodies},
     user : Authors, parents : ParentLists]

ContentTypes == {ATTACHMENT_TYPE_MOZREVIEW, ATTACHMENT_TYPE_GITHUB,
                 ATTACHMENT_TYPE_PHABRICATOR, "text/plain"}

AttachmentKinds ==
    [content_type : ContentTypes, is_patch : {0, 1}, is_obsolete : {0, 1}]

\* the attachment lists of at most n attachments; the id is the position
AttachmentLists(n) ==
    UNION { { [i \in 1..k |-> [id |-> i,
                               content_type |-> f[i].content_type,
                               is_patch |-> f[i].is_patch,
                               is_obsolete |-> f[i].is_obsolete]] :
              f \in [1..k -> AttachmentKinds] } : k \in 0..n }

Change(field, added) == [field_name |-> field, added |-> added]

Group(changes) == [changes |-> changes]

Histories ==
    { <<>>,
      <<Group(<<Change("flagtypes.name", REVIEW_PLUS)>>)>>,
      <<Group(<<Change("flagtypes.name", <<"r", "e", "v", "i", "e", "w", "?">>)>>)>>,
      <<Group(<<Change("cc", REVIEW_PLUS)>>)>>,
      <<Group(<<>>),
        Group(<<Change("cc", <<"x">>),
                Change("flagtypes.name",
                       <<"f", "e", "e", "d", "b", "a", "c", "k", "+", ",",
                         "r", "e", "v", "i", "e", "w", "+">>)>>)>>,
      <<Group(<<Change("flagtypes.name",
                       <<"r", "e", "v", "i", "e", "w", "+", ",",
                         "f", "e", "e", "d", "b", "a", "c", "k", "+">>)>>)>>,
      <<Group(<<Change("flagtypes.name",
                       <<"f", "e", "e", "d", "b", "a", "c", "k", "+", ",", " ",
                         "r", "e", "v", "i", "e", "w", "+">>)>>)>>,
      <<Group(<<Change("flagtypes.name",
                       <<"r", "e", "v", "i", "e", "w", "+", "x">>)>>)>> }

\* no payload has been built
NoPayload == [changesetID |-> "", reviewSystemUsed |-> "none"]

NoResponse == [transport |-> "none", status |-> 0, error_key |-> FALSE, data |-> NoData]

-----------------------------------------------------------------------------
(* classifier.determine_review_system(revision_json), step by step. *)

Init ==
    /\ OutsideIdle
    /\ revision_json \in Revisions
    /\ pc = "start"
    /\ bug_id = 0
    /\ att_response = NoResponse
    /\ hist_response = NoResponse
    /\ attachments = <<>>
    /\ bug_history = <<>>
    /\ review_attachments = <<>>
    /\ fetches = <<>>
    /\ result = "none"
    /\ raised = "none"
    /\ payload = NoPayload

\* Lines 230-271.
DetermineLocal ==
    /\ UNCHANGED outside_classifier
    /\ pc = "start"
    /\ LET d == LocalDecision(revision_json)
       IN  IF d = "fetch"
           THEN /\ bug_id' = parse_bugs(split_summary(revision_json.desc))[1]
                /\ pc' = "fetch_attachments"
                /\ result' = result
           ELSE /\ result' = d
                /\ pc' = "done"
                /\ bug_id' = bug_id
    /\ UNCHANGED <<revision_json, att_response, hist_response, attachments,
                   bug_history, review_attachments, fetches, raised, payload>>

\* each fetch in a try block of its own: after a failed attachment fetch the
\* history is fetched all the same
FetchAttachments_continue ==
    /\ UNCHANGED outside_classifier
    /\ pc = "fetch_attachments"
    /\ \E response \in BugzillaFailures
                       \cup BugzillaAnswers(AttachmentLists(MaxFetched)) :
          LET got == fetch_attachments(response)
          IN  /\ att_response' = response
              /\ fetches' = Append(fetches, "fetch_attachments")
              /\ attachments' = got.value
              /\ pc' = "fetch_bug_history"
              /\ UNCHANGED <<result, raised>>
    /\ UNCHANGED <<revision_json, bug_id, hist_response, bug_history,
                   review_attachments, payload>>

\* Line 274, with the except clauses of lines 276-289.
FetchAttachments ==
    /\ UNCHANGED outside_classifier
    /\ pc = "fetch_attachments"
    /\ \E response \in BugzillaFailures
                       \cup BugzillaAnswers(AttachmentLists(MaxFetched)) :
          LET got == fetch_attachments(response)
          IN  /\ att_response' = response
              /\ fetches' = Append(fetches, "fetch_attachments")
              /\ IF got.raises = "none"
                 THEN /\ attachments' = got.value
                      /\ pc' = "fetch_bug_history"
                      /\ UNCHANGED <<result, raised>>
                 ELSE /\ attachments' = attachments
                      /\ IF ExceptDecision(got.raises) = "raise"
                         THEN /\ raised' = got.raises
                              /\ result' = result
                              /\ pc' = "raised"
                         ELSE /\ result' = ExceptDecision(got.raises)
                              /\ raised' = raised
                              /\ pc' = "done"
    /\ UNCHANGED <<revision_json, bug_id, hist_response, bug_history,
                   review_attachments, payload>>

\* Line 275, with the except clauses of lines 276-289.
FetchBugHistory ==
    /\ UNCHANGED outside_classifier
    /\ pc = "fetch_bug_history"
    /\ \E response \in BugzillaFailures \cup BugzillaAnswers(Histories) :
          LET got == fetch_bug_history(response)
          IN  /\ hist_response' = response
              /\ fetches' = Append(fetches, "fetch_bug_history")
              /\ IF got.raises = "none"
                 THEN /\ bug_history' = got.value
                      /\ pc' = "classify"
                      /\ UNCHANGED <<result, raised>>
                 ELSE /\ bug_history' = bug_history
                      /\ IF ExceptDecision(got.raises) = "raise"
                         THEN /\ raised' = got.raises
                              /\ result' = result
                              /\ pc' = "raised"
                         ELSE /\ result' = ExceptDecision(got.raises)
                              /\ raised' = raised
                              /\ pc' = "done"
    /\ UNCHANGED <<revision_json, bug_id, att_response, attachments,
                   review_attachments, payload>>

\* the decision still opens with a MozReview check, made on the unfiltered list
Classify_mut ==
    /\ UNCHANGED outside_classifier
    /\ pc = "classify"
    /\ review_attachments' = collect_review_attachments(attachments)
    /\ result' =
          IF \E i \in DOMAIN attachments :
                 /\ is_patch(attachments[i])
                 /\ attachments[i].content_type = ATTACHMENT_TYPE_MOZREVIEW
          THEN "mozreview"
          ELSE BugDataDecision(collect_review_attachments(attachments), bug_history)
    /\ pc' = "done"
    /\ UNCHANGED <<revision_json, bug_id, att_response, hist_response,
                   attachments, bug_history, fetches, raised, payload>>

\* Lines 291-307.
Classify ==
    /\ UNCHANGED outside_classifier
    /\ pc = "classify"
    /\ review_attachments' = collect_review_attachments(attachments)
    /\ result' = BugDataDecision(collect_review_attachments(attachments), bug_history)
    /\ pc' = "done"
    /\ UNCHANGED <<revision_json, bug_id, att_response, hist_response,
                   attachments, bug_history, fetches, raised, payload>>

Next == DetermineLocal \/ FetchAttachments \/ FetchBugHistory \/ Classify

Spec == Init /\ [][Next]_vars

-----------------------------------------------------------------------------
(* The decision on the bug data alone: determine_review_system right after  *)
(* both fetches have answered, for every attachment list and history.       *)

SampleRevision ==
    [node |-> "445d1a7b", desc |-> <<"B", "u", "g", " ", "1">>,
     user |-> "Test User <author@mozilla.com>", parents |-> SubSeq(ParentIds, 1, 1)]

Answer(d) == [transport |-> "response", status |-> 200, error_key |-> FALSE, data |-> d]

InitBugData ==
    /\ OutsideIdle
    /\ revision_json = SampleRevision
    /\ pc = "classify"
    /\ bug_id = 1
    /\ attachments \in AttachmentLists(MaxAttachments)
    /\ bug_history \in Histories
    /\ att_response = Answer(attachments)
    /\ hist_response = Answer(bug_history)
    /\ review_attachments = <<>>
    /\ fetches = <<"fetch_attachments", "fetch_bug_history">>
    /\ result = "none"
    /\ raised = "none"
    /\ payload = NoPayload

NextBugData == Classify

SpecBugData == InitBugData /\ [][NextBugData]_vars

-----------------------------------------------------------------------------
(* telemetry.py: payload_for_changeset and the determine_review_system of   *)
(* that module, which it calls.                                             *)

\* PHABRICATOR_COMMIT_RE = Differential Revision: ([\w:/.]*)(D[0-9]{3,})
telemetry_has_phab_markers(revision_description) ==
    LET s == revision_description
        lit == <<"D", "i", "f", "f", "e", "r", "e", "n", "t", "i", "a", "l", " ",
                 "R", "e", "v", "i", "s", "i", "o", "n", ":", " ">>
    IN  \E i \in DOMAIN s :
            /\ MatchAt(s, i, lit)
            /\ \E k \in (i + Len(lit))..Len(s) :
                  /\ \A m \in (i + Len(lit))..(k - 1) :
                        IsWord(s[m]) \/ s[m] \in {":", "/", "."}
                  /\ s[k] = "D"
                  /\ \A m \in (k + 1)..(k + 3) : m \in DOMAIN s /\ IsDigit(s[m])

has_mozreview_markers(atts) ==
    LET patches == SelectSeq(atts, is_patch)
    IN  \E k \in DOMAIN patches :
            patches[k].content_type = ATTACHMENT_TYPE_MOZREVIEW

\* What requests.get(url) can do here: raise ConnectionError or return a
\* response (no retrying session in this module).
TelemetryFailures ==
    {[transport |-> "ConnectionError", status |-> 0, error_key |-> FALSE,
      data |-> NoData]}
    \cup
    {[transport |-> "response", status |-> st[1], error_key |-> st[2],
      data |-> NoData] :
        st \in ({200, 401, 404, 500} \X BOOLEAN) \ {<<200, FALSE>>}}

\* raise_for_status(), then response.json()['bugs'][...]
telemetry_fetch_attachments(response) ==
    IF response.transport # "response" THEN Raises(response.transport)
    ELSE IF response.status >= 400 THEN Raises("HTTPError")
    ELSE IF response.error_key THEN Raises("KeyError")
    ELSE Returns(response.data)

telemetry_fetch_bug_history(response) ==
    IF response.transport # "response" THEN Raises(response.transport)
    ELSE IF response.status >= 400 THEN Raises("HTTPError")
    ELSE IF response.error_key THEN Raises("KeyError")
    ELSE Returns(response.data)

\* telemetry.py lines 170-192; the text examined is the whole description.
TelemetryLocalDecision(rev) ==
    IF has_backout_markers(rev.desc) \/ has_merge_markers(rev) THEN "not_applicable"
    ELSE IF telemetry_has_phab_markers(rev.desc) THEN "phabricator"
    ELSE IF parse_bugs(rev.desc) = <<>> THEN "unknown"
    ELSE "fetch"

\* telemetry.py lines 197-201
TelemetryExceptDecision(exc) == IF exc = "HTTPError" THEN "unknown" ELSE "raise"

\* telemetry.py lines 203-214, on the unfiltered attachment list
TelemetryBugDataDecision(atts, history) ==
    IF has_mozreview_markers(atts) THEN "mozreview"
    ELSE IF has_bmo_patch_review_markers(atts, history) THEN "bmo"
    ELSE "unknown"

\* telemetry.py line 155
Payload(changesetid, system) ==
    [changesetID |-> changesetid, reviewSystemUsed |-> system]

TelemetryBodies ==
    Bodies \cup
    { <<"\n", "D", "i", "f", "f", "e", "r", "e", "n", "t", "i", "a", "l", " ",
        "R", "e", "v", "i", "s", "i", "o", "n", ":", " ", "D", "1", "2", "3">> }

TelemetryRevisions ==
    [node : {"445d1a7b"},
     desc : {s \o b : s \in Summaries, b \in TelemetryBodies},
     user : Authors, parents : ParentLists]

\* what hg.mozilla.org answers to json-rev
HgAnswers == {"ConnectionError", "200", "404", "500"}

InitTelemetry ==
    /\ OutsideIdle
    /\ revision_json \in TelemetryRevisions
    /\ pc = "payload_for_changeset"
    /\ bug_id = 0
    /\ att_response = NoResponse
    /\ hist_response = NoResponse
    /\ attachments = <<>>
    /\ bug_history = <<>>
    /\ review_attachments = <<>>
    /\ fetches = <<>>
    /\ result = "none"
    /\ raised = "none"
    /\ payload = NoPayload

\* payload_for_changeset, lines 144-151
PayloadFetchChangeset ==
    /\ UNCHANGED outside_classifier
    /\ pc = "payload_for_changeset"
    /\ \E answer \in HgAnswers :
          /\ raised' = CASE answer = "ConnectionError" -> "ConnectionError"
                         [] answer = "404" -> "NoSuchChangeset"
                         [] answer = "500" -> "HTTPError"
                         [] OTHER -> "none"
          /\ pc' = IF answer = "200" THEN "start" ELSE "raised"
    /\ UNCHANGED <<revision_json, bug_id, att_response, hist_response, attachments,
                   bug_history, review_attachments, fetches, result, payload>>

\* telemetry.determine_review_system, lines 170-192 (and 153-155 on return)
TelemetryDetermineLocal ==
    /\ UNCHANGED outside_classifier
    /\ pc = "start"
    /\ LET d == TelemetryLocalDecision(revision_json)
           bugs == parse_bugs(revision_json.desc)
       IN  IF d = "fetch"
           THEN /\ bug_id' = bugs[Len(bugs)]
                /\ pc' = "fetch_attachments"
                /\ UNCHANGED <<result, payload>>
           ELSE /\ result' = d
                /\ payload' = Payload(revision_json.node, d)
                /\ pc' = "done"
                /\ bug_id' = bug_id
    /\ UNCHANGED <<revision_json, att_response, hist_response, attachments,
                   bug_history, review_attachments, fetches, raised>>

\* line 195, with the except clause of lines 197-201
TelemetryFetchAttachments ==
    /\ UNCHANGED outside_classifier
    /\ pc = "fetch_attachments"
    /\ \E response \in TelemetryFailures
                       \cup BugzillaAnswers(AttachmentLists(MaxFetched)) :
          LET got == telemetry_fetch_attachments(response)
              d == TelemetryExceptDecision(got.raises)
          IN  /\ att_response' = response
              /\ fetches' = Append(fetches, "fetch_attachments")
              /\ IF got.raises = "none"
                 THEN /\ attachments' = got.value
                      /\ pc' = "fetch_bug_history"
                      /\ UNCHANGED <<result, raised, payload>>
                 ELSE /\ attachments' = attachments
                      /\ IF d = "raise"
                         THEN /\ raised' = got.raises
                              /\ pc' = "raised"
                              /\ UNCHANGED <<result, payload>>
                         ELSE /\ result' = d
                              /\ payload' = Payload(revision_json.node, d)
                              /\ raised' = raised
                              /\ pc' = "done"
    /\ UNCHANGED <<revision_json, bug_id, hist_response, bug_history,
                   review_attachments>>

\* line 196, with the except clause of lines 197-201
TelemetryFetchBugHistory ==
    /\ UNCHANGED outside_classifier
    /\ pc = "fetch_bug_history"
    /\ \E response \in TelemetryFailures \cup BugzillaAnswers(Histories) :
          LET got == telemetry_fetch_bug_history(response)
              d == TelemetryExceptDecision(got.raises)
          IN  /\ hist_response' = response
              /\ fetches' = Append(fetches, "fetch_bug_history")
              /\ IF got.raises = "none"
                 THEN /\ bug_history' = got.value
                      /\ pc' = "classify"
                      /\ UNCHANGED <<result, raised, payload>>
                 ELSE /\ bug_history' = bug_history
                      /\ IF d = "raise"
                         THEN /\ raised' = got.raises
                              /\ pc' = "raised"
                              /\ UNCHANGED <<result, payload>>
                         ELSE /\ result' = d
                              /\ payload' = Payload(revision_json.node, d)
                              /\ raised' = raised
                              /\ pc' = "done"
    /\ UNCHANGED <<revision_json, bug_id, att_response, attachments,
                   review_attachments>>

\* lines 203-214, and 153-155 on return
TelemetryClassify ==
    /\ UNCHANGED outside_classifier
    /\ pc = "classify"
    /\ result' = TelemetryBugDataDecision(attachments, bug_history)
    /\ payload' = Payload(revision_json.node,
                          TelemetryBugDataDecision(attachments, bug_history))
    /\ pc' = "done"
    /\ UNCHANGED <<revision_json, bug_id, att_response, hist_response,
                   attachments, bug_history, review_attachments, fetches, raised>>

NextTelemetry ==
    \/ PayloadFetchChangeset
    \/ TelemetryDetermineLocal
    \/ TelemetryFetchAttachments
    \/ TelemetryFetchBugHistory
    \/ TelemetryClassify

SpecTelemetry == InitTelemetry /\ [][NextTelemetry]_vars

-----------------------------------------------------------------------------
(* The dump_telemetry command of tool.py: payload_for_changeset inside a    *)
(* try block, then the ping pretty-printed. Exception classes are named by  *)
(* the module that defines them: hgmo.py and telemetry.py each define an    *)
(* Error and a NoSuchChangeset of their own.                                *)

\* the class of the exception payload_for_changeset raises under each name
ExceptionClass(name) ==
    CASE name = "NoSuchChangeset" -> "committelemetry.telemetry.NoSuchChangeset"
      [] name = "HTTPError" -> "requests.exceptions.HTTPError"
      [] name = "ConnectionError" -> "requests.exceptions.ConnectionError"
      [] OTHER -> "builtins." \o name

\* the classes a class inherits from, itself included
Bases(cls) ==
    CASE cls = "committelemetry.telemetry.NoSuchChangeset" ->
            {cls, "committelemetry.telemetry.Error", "builtins.Exception"}
      [] cls = "committelemetry.hgmo.NoSuchChangeset" ->
            {cls, "committelemetry.hgmo.Error", "builtins.Exception"}
      [] cls \in {"requests.exceptions.HTTPError",
                  "requests.exceptions.ConnectionError"} ->
            {cls, "requests.exceptions.RequestException", "builtins.OSError",
             "builtins.Exception"}
      [] OTHER -> {cls, "builtins.Exception"}

\* the name NoSuchChangeset in tool.py (import of line 13)
DumpTelemetryHandles == "committelemetry.hgmo.NoSuchChangeset"

\* `except NoSuchChangeset:` of line 39
DumpTelemetryCatches(cls) == DumpTelemetryHandles \in Bases(cls)

\* lines 39-43: the exception of payload_for_changeset meets the except clause
DumpTelemetryExcept ==
    /\ UNCHANGED <<concurrent_vars, patch_vars, pulse_vars>>
    /\ pc = "raised"
    /\ command' = IF DumpTelemetryCatches(ExceptionClass(raised))
                  THEN [printed |-> "error", exit_status |-> "1",
                        propagated |-> "none"]
                  ELSE [printed |-> "none", exit_status |-> "none",
                        propagated |-> ExceptionClass(raised)]
    /\ pc' = "exit"
    /\ UNCHANGED <<revision_json, bug_id, att_response, hist_response, attachments,
                   bug_history, review_attachments, fetches, result, raised,
                   payload>>

\* line 45
DumpTelemetryPrint ==
    /\ UNCHANGED <<concurrent_vars, patch_vars, pulse_vars>>
    /\ pc = "done"
    /\ command' = [printed |-> "ping", exit_status |-> "none",
                   propagated |-> "none"]
    /\ pc' = "exit"
    /\ UNCHANGED <<revision_json, bug_id, att_response, hist_response, attachments,
                   bug_history, review_attachments, fetches, result, raised,
                   payload>>

NextDumpTelemetry ==
    \/ PayloadFetchChangeset
    \/ TelemetryDetermineLocal
    \/ TelemetryFetchAttachments
    \/ TelemetryFetchBugHistory
    \/ TelemetryClassify
    \/ DumpTelemetryExcept
    \/ DumpTelemetryPrint

SpecDumpTelemetry == InitTelemetry /\ [][NextDumpTelemetry]_vars

-----------------------------------------------------------------------------
(* classifier.determine_review_system invoked by several callers at once,   *)
(* each on its own changeset and with its own answers from Bugzilla. The    *)
(* function keeps everything it works on in local variables.                *)

Callers == {"a", "b"}

ConcurrentRevisions ==
    {[node |-> "445d1a7b", desc |-> d,
      user |-> "Test User <author@mozilla.com>", parents |-> SubSeq(ParentIds, 1, 1)] :
        d \in {<<"B", "u", "g", " ", "1">>, <<"N", "o", " ", "b", "u", "g">>}}

ConcurrentAttachments ==
    {<<>>} \cup
    {<<[id |-> 1, content_type |-> t, is_patch |-> p, is_obsolete |-> 0]>> :
        t \in {ATTACHMENT_TYPE_PHABRICATOR, "text/plain"}, p \in {0, 1}}

ConcurrentHistories ==
    {<<>>, <<Group(<<Change("flagtypes.name", REVIEW_PLUS)>>)>>}

\* the local variables of a call that has not started
NewCall(rev) ==
    [revision_json |-> rev, pc |-> "start", bug_id |-> 0,
     att_response |-> NoResponse, hist_response |-> NoResponse,
     attachments |-> <<>>, bug_history |-> <<>>, review_attachments |-> <<>>,
     result |-> "none", raised |-> "none"]

\* the fetched bug data is kept in one module-level place
LocalsOf_shared(c) == "a"

\* where invocation c keeps the bug data it fetched: its own local
\* variables attachments and bug_history (lines 274-275)
LocalsOf(c) == c

InitConcurrent ==
    /\ PatchIdle /\ PulseIdle /\ ToolIdle
    /\ calls \in [Callers -> {NewCall(rev) : rev \in ConcurrentRevisions}]
    /\ revision_json = SampleRevision
    /\ pc = "idle"
    /\ bug_id = 0
    /\ att_response = NoResponse
    /\ hist_response = NoResponse
    /\ attachments = <<>>
    /\ bug_history = <<>>
    /\ review_attachments = <<>>
    /\ fetches = <<>>
    /\ result = "none"
    /\ raised = "none"
    /\ payload = NoPayload

\* Lines 230-271, in invocation c.
CallDetermineLocal(c) ==
    /\ calls[c].pc = "start"
    /\ LET d == LocalDecision(calls[c].revision_json)
       IN  IF d = "fetch"
           THEN calls' = [calls EXCEPT
                    ![c].bug_id =
                        parse_bugs(split_summary(calls[c].revision_json.desc))[1],
                    ![c].pc = "fetch_attachments"]
           ELSE calls' = [calls EXCEPT ![c].result = d, ![c].pc = "done"]
    /\ UNCHANGED outside_concurrent

\* Line 274 with the except clauses, in invocation c.
CallFetchAttachments(c) ==
    /\ calls[c].pc = "fetch_attachments"
    /\ \E response \in BugzillaFailures \cup BugzillaAnswers(ConcurrentAttachments) :
          LET got == fetch_attachments(response)
              d == ExceptDecision(got.raises)
          IN  calls' =
                IF got.raises = "none"
                THEN [calls EXCEPT ![c].att_response = response,
                                   ![c].pc = "fetch_bug_history",
                                   ![LocalsOf(c)].attachments = got.value]
                ELSE IF d = "raise"
                THEN [calls EXCEPT ![c].att_response = response,
                                   ![c].raised = got.raises,
                                   ![c].pc = "raised"]
                ELSE [calls EXCEPT ![c].att_response = response,
                                   ![c].result = d,
                                   ![c].pc = "done"]
    /\ UNCHANGED outside_concurrent

\* Line 275 with the except clauses, in invocation c.
CallFetchBugHistory(c) ==
    /\ calls[c].pc = "fetch_bug_history"
    /\ \E response \in BugzillaFailures \cup BugzillaAnswers(ConcurrentHistories) :
          LET got == fetch_bug_history(response)
              d == ExceptDecision(got.raises)
          IN  calls' =
                IF got.raises = "none"
                THEN [calls EXCEPT ![c].hist_response = response,
                                   ![c].pc = "classify",
                                   ![LocalsOf(c)].bug_history = got.value]
                ELSE IF d = "raise"
                THEN [calls EXCEPT ![c].hist_response = response,
                                   ![c].raised = got.raises,
                                   ![c].pc = "raised"]
                ELSE [calls EXCEPT ![c].hist_response = response,
                                   ![c].result = d,
                                   ![c].pc = "done"]
    /\ UNCHANGED outside_concurrent

\* Lines 291-307, in invocation c.
CallClassify(c) ==
    /\ calls[c].pc = "classify"
    /\ LET filtered == collect_review_attachments(calls[LocalsOf(c)].attachments)
       IN  calls' = [calls EXCEPT
                ![c].review_attachments = filtered,
                ![c].result = BugDataDecision(filtered,
                                              calls[LocalsOf(c)].bug_history),
                ![c].pc = "done"]
    /\ UNCHANGED outside_concurrent

NextConcurrent ==
    \E c \in Callers :
        \/ CallDetermineLocal(c)
        \/ CallFetchAttachments(c)
        \/ CallFetchBugHistory(c)
        \/ CallClassify(c)

SpecConcurrent == InitConcurrent /\ [][NextConcurrent]_vars

-----------------------------------------------------------------------------
(* patch.diffstat(patchtext): the unified-diff scan of the specification,   *)
(* section 4.3, one line of the patch text at a time.                       *)

MaxLines == 4

DIFF_LINE == <<"d", "i", "f", "f", " ", "a">>
OLD_LINE == <<"-", "-", "-", " ", "a">>
NEW_LINE == <<"+", "+", "+", " ", "b">>
HUNK_LINE == <<"@", "@", " ", "1">>

\* the lines a patch text is made of here: the file header lines, the hunk
\* header, added, removed and context lines, lines whose own text opens with
\* a sign, a binary or rename marker, and the empty line
PatchLines ==
    { DIFF_LINE, OLD_LINE, NEW_LINE, HUNK_LINE,
      <<"+", "x">>, <<"-", "x">>, <<" ", "x">>,
      <<"+", "-", "x">>, <<"-", "+", "x">>,
      <<"G", "I", "T">>, <<>> }

PatchTexts == UNION {[1..n -> PatchLines] : n \in 0..MaxLines}

StartsWith(line, lit) == MatchAt(line, 1, lit)

\* a line opening with "--- " immediately followed by one opening with "+++ "
PairAt(lines, i) ==
    /\ i \in DOMAIN lines /\ i + 1 \in DOMAIN lines
    /\ StartsWith(lines[i], <<"-", "-", "-", " ">>)
    /\ StartsWith(lines[i + 1], <<"+", "+", "+", " ">>)

\* only the ---/+++ pairs open a file
OpensFile_pair(lines, i, p) == PairAt(lines, i)

\* line i opens a file: a "diff " line, or a ---/+++ pair that does not
\* belong to the header a "diff " line has just opened
OpensFile(lines, i, p) ==
    \/ StartsWith(lines[i], <<"d", "i", "f", "f", " ">>)
    \/ PairAt(lines, i) /\ ~(p.state = "header" /\ ~p.paired)

\* a content line is told from a header line by its first two characters
LineClass_strict(line) ==
    IF line = <<>> THEN "other"
    ELSE IF Len(line) >= 2 /\ line[1] = line[2] /\ line[1] \in {"+", "-"} THEN "other"
    ELSE IF line[1] = "+" THEN "addition"
    ELSE IF line[1] = "-" THEN "deletion"
    ELSE "other"

\* the first character is read without looking at the length of the line
LineClass_index(line) ==
    IF line = <<>> THEN "error"
    ELSE IF line[1] = "+" THEN "addition"
    ELSE IF line[1] = "-" THEN "deletion"
    ELSE "other"

\* the class of a line of a hunk body, by its first character only
LineClass(line) ==
    IF line = <<>> THEN "other"
    ELSE IF line[1] = "+" THEN "addition"
    ELSE IF line[1] = "-" THEN "deletion"
    ELSE "other"

NewParser ==
    [pos |-> 1, state |-> "outside", paired |-> FALSE, skip |-> FALSE,
     files_changed |-> 0, additions |-> 0, deletions |-> 0]

\* the parser after the line at its position
ScanLine(lines, p) ==
    LET line == lines[p.pos]
        q == [p EXCEPT !.pos = p.pos + 1, !.skip = FALSE]
    IN  IF p.skip THEN q
        ELSE IF OpensFile(lines, p.pos, p)
        THEN [q EXCEPT !.files_changed = p.files_changed + 1,
                       !.state = "header",
                       !.paired = PairAt(lines, p.pos),
                       !.skip = PairAt(lines, p.pos)]
        ELSE IF PairAt(lines, p.pos)
        THEN [q EXCEPT !.paired = TRUE, !.skip = TRUE]
        ELSE IF StartsWith(line, <<"@", "@">>) /\ p.state # "outside"
        THEN [q EXCEPT !.state = "hunk"]
        ELSE IF p.state = "hunk"
        THEN CASE LineClass(line) = "addition" ->
                      [q EXCEPT !.additions = p.additions + 1]
               [] LineClass(line) = "deletion" ->
                      [q EXCEPT !.deletions = p.deletions + 1]
               [] LineClass(line) = "error" -> [q EXCEPT !.state = "raised"]
               [] OTHER -> q
        ELSE q

InitDiffstat ==
    /\ patchtext \in PatchTexts
    /\ parser = NewParser
    /\ ConcurrentIdle /\ PulseIdle /\ ToolIdle
    /\ revision_json = SampleRevision
    /\ pc = "idle"
    /\ bug_id = 0
    /\ att_response = NoResponse
    /\ hist_response = NoResponse
    /\ attachments = <<>>
    /\ bug_history = <<>>
    /\ review_attachments = <<>>
    /\ fetches = <<>>
    /\ result = "none"
    /\ raised = "none"
    /\ payload = NoPayload

DiffstatLine ==
    /\ parser.state # "raised"
    /\ parser.pos \in DOMAIN patchtext
    /\ parser' = ScanLine(patchtext, parser)
    /\ UNCHANGED <<patchtext, outside_patch>>

NextDiffstat == DiffstatLine

SpecDiffstat == InitDiffstat /\ [][NextDiffstat]_vars

-----------------------------------------------------------------------------
(* pulse.py: process_push_message(body, message, no_send), step by step.    *)
(* events lists the calls it makes to changesets_for_pushid,                *)
(* payload_for_changeset, send_ping and message.ack, in order.              *)

MaxChangesets == 2

ChangesetIds == {"ab1cd2", "ebe998", "deafa2"}

\* the changeset lists a push can hold: no changeset twice
ChangesetLists ==
    UNION {{f \in [1..n -> ChangesetIds] :
               \A i, j \in 1..n : i # j => f[i] # f[j]} : n \in 0..MaxChangesets}

PushData(pushid) == [pushid |-> pushid]

\* payload['data']['pushlog_pushes']: no push, one push, or (invalid) two
PushLists ==
    {<<>>, <<PushData(64752)>>, <<PushData(64752), PushData(64753)>>}

Bodies_hgpush ==
    [type : {"changegroup.1", "newrepo.1"}, pushlog_pushes : PushLists]

\* the tags telemetry.determine_review_system returns
PayloadTags == {"not_applicable", "phabricator", "mozreview", "bmo", "unknown"}

\* what makes payload_for_changeset or changesets_for_pushid raise
HgFailures == {"NoSuchChangeset", "HTTPError", "ConnectionError"}

Event(op, id, ping) == [op |-> op, id |-> id, ping |-> ping]

\* message.ack is called whatever no_send says
AckEvents_always(nosend) == <<Event("ack", "message", NoPayload)>>

\* line 66: ack is noop when no_send is set, message.ack otherwise
AckEvents(nosend) ==
    IF nosend THEN <<>> ELSE <<Event("ack", "message", NoPayload)>>

\* the message is acknowledged as soon as it is received
AckOnEntry_always(skipped) == TRUE

\* a skipped message is returned from without being acknowledged
AckOnEntry_never(skipped) == FALSE

\* lines 74-96: on entry the message is acknowledged only if it is skipped
AckOnEntry(skipped) == skipped

\* send_ping dedented out of the for loop: only the last changeset is sent
LoopEvents_dedent(changeset, ping, rest, nosend) ==
    <<Event("payload_for_changeset", changeset, ping)>>
    \o (IF nosend \/ rest # <<>> THEN <<>>
        ELSE <<Event("send_ping", changeset, ping)>>)

\* lines 105-114: the calls of one turn of the loop
LoopEvents(changeset, ping, rest, nosend) ==
    <<Event("payload_for_changeset", changeset, ping)>>
    \o (IF nosend THEN <<>> ELSE <<Event("send_ping", changeset, ping)>>)

InitPulse ==
    /\ body \in Bodies_hgpush
    /\ no_send \in BOOLEAN
    /\ pulse_pc = "start"
    /\ todo = <<>>
    /\ events = <<>>
    /\ ConcurrentIdle /\ PatchIdle /\ ToolIdle
    /\ revision_json = SampleRevision
    /\ pc = "idle"
    /\ bug_id = 0
    /\ att_response = NoResponse
    /\ hist_response = NoResponse
    /\ attachments = <<>>
    /\ bug_history = <<>>
    /\ review_attachments = <<>>
    /\ fetches = <<>>
    /\ result = "none"
    /\ raised = "none"
    /\ payload = NoPayload

\* lines 66-100
ProcessReceive ==
    /\ pulse_pc = "start"
    /\ LET skipped == \/ body.type # "changegroup.1"
                      \/ Len(body.pushlog_pushes) # 1
       IN  /\ events' = events \o (IF AckOnEntry(skipped) THEN AckEvents(no_send)
                                   ELSE <<>>)
           /\ pulse_pc' = IF skipped THEN "done" ELSE "changesets_for_pushid"
    /\ UNCHANGED <<body, no_send, todo>>
    /\ UNCHANGED outside_pulse

\* lines 102-104: changesets_for_pushid(pushdata['pushid'], ...)
ProcessChangesetsForPushid ==
    /\ pulse_pc = "changesets_for_pushid"
    /\ LET pushdata == body.pushlog_pushes[Len(body.pushlog_pushes)]
       IN  \/ \E exc \in HgFailures \ {"NoSuchChangeset"} :
                /\ events' = Append(events,
                       [op |-> "changesets_for_pushid", id |-> pushdata.pushid,
                        raises |-> exc, returned |-> <<>>])
                /\ pulse_pc' = "raised"
                /\ todo' = todo
           \/ \E changesets \in ChangesetLists :
                /\ events' = Append(events,
                       [op |-> "changesets_for_pushid", id |-> pushdata.pushid,
                        raises |-> "none", returned |-> changesets])
                /\ pulse_pc' = "loop"
                /\ todo' = changesets
    /\ UNCHANGED <<body, no_send>>
    /\ UNCHANGED outside_pulse

\* the loop inside try/finally: the message is acknowledged on the way out of
\* an exception too
ProcessChangeset_finally ==
    /\ pulse_pc = "loop"
    /\ todo # <<>>
    /\ LET changeset == Head(todo)
       IN  \/ \E exc \in HgFailures :
                /\ events' = Append(events, [op |-> "payload_for_changeset",
                                             id |-> changeset, raises |-> exc])
                              \o AckEvents(no_send)
                /\ pulse_pc' = "raised"
                /\ todo' = todo
           \/ \E system \in PayloadTags :
                /\ events' = events \o LoopEvents(changeset,
                                                  Payload(changeset, system),
                                                  Tail(todo), no_send)
                /\ pulse_pc' = "loop"
                /\ todo' = Tail(todo)
    /\ UNCHANGED <<body, no_send>>
    /\ UNCHANGED outside_pulse

\* lines 102-114: one turn of the loop
ProcessChangeset ==
    /\ pulse_pc = "loop"
    /\ todo # <<>>
    /\ LET changeset == Head(todo)
       IN  \/ \E exc \in HgFailures :
                /\ events' = Append(events, [op |-> "payload_for_changeset",
                                             id |-> changeset, raises |-> exc])
                /\ pulse_pc' = "raised"
                /\ todo' = todo
           \/ \E system \in PayloadTags :
                /\ events' = events \o LoopEvents(changeset,
                                                  Payload(changeset, system),
                                                  Tail(todo), no_send)
                /\ pulse_pc' = "loop"
                /\ todo' = Tail(todo)
    /\ UNCHANGED <<body, no_send>>
    /\ UNCHANGED outside_pulse

\* line 116
ProcessAck ==
    /\ pulse_pc = "loop"
    /\ todo = <<>>
    /\ events' = events \o AckEvents(no_send)
    /\ pulse_pc' = "done"
    /\ UNCHANGED <<body, no_send, todo>>
    /\ UNCHANGED outside_pulse

NextPulse ==
    \/ ProcessReceive
    \/ ProcessChangesetsForPushid
    \/ ProcessChangeset
    \/ ProcessAck

SpecPulse == InitPulse /\ [][NextPulse]_vars

-----------------------------------------------------------------------------
(* The text functions of classifier.py applied to one text each:            *)
(* split_summary, has_no_bug_marker and has_wpt_uplift_markers.             *)

\* the texts of tests/test_classifier.py
TestTexts ==
    {
      <<"n", "o", " ", "b", "u", "g", " ", "-", " ", "f", "o", "o">>,
      <<"b", "a", "r", " ", "b", "a", "z", " ", "-", " ", "N", "o", " ",
        "b", "u", "g", ",", " ", "b", "l", "a", "h">>,
      <<"b", "a", "r", " ", "b", "a", "z", " ", "-", " ", "N", "O", " ",
        "B", "U", "G">>,
      <<"B", "u", "g", " ", "1", "2", "3", "4", " ", "-", " ", "b", "l",
        "a", "h", " ", "b", "l", "a", "h">>,
      <<"B", "u", "g", " ", "1", "2", "3", "4", " ", "-", " ", "N", "o",
        " ", "b", "l", "a", "h", " ", "f", "o", "r", " ", "b", "u", "g">>,
      <<"f", "o", "o">>,
      <<"f", "o", "o", "\n", "b", "a", "r", "\n", "b", "a", "z">>,
      <<"B", "u", "g", " ", "1", "2", "3", " ", "-", " ", "[", "w", "p",
        "t", " ", "P", "R", " ", "1", "2", "3", "]", " ", "f", "o", "o",
        " ", "b", "a", "r", " ", "a", "=", "t", "e", "s", "t", "o", "n",
        "l", "y">>,
      <<"B", "u", "g", " ", "1", "2", "3", " ", "-", " ", "[", "w", "p",
        "t", " ", "P", "R", " ", "1", "2", "3", "]", " ", "f", "o", "o",
        " ", "b", "a", "r", " ", "a", "=", "t", "e", "s", "t", "o", "n",
        "l", "y", " ", "e", "x", "t", "r", "a">>,
      <<"B", "u", "g", " ", "1", "2", "3", " ", "-", " ", "[", "w", "p",
        "t", " ", "P", "R", " ", "1", "2", "3", "]">>,
      <<"B", "u", "g", " ", "1", "2", "3", " ", "-", " ", "f", "o", "o",
        " ", "b", "a", "r", " ", "a", "=", "t", "e", "s", "t", "o", "n",
        "l", "y">>,
      <<"s", "u", "m", "m", "a", "r", "y">> }

\* the empty text, texts with other line breaks, near misses of the markers
EdgeTexts ==
    {
      <<>>,
      <<"\n", "f", "o", "o">>,
      <<"f", "o", "o", "\r", "\n", "b", "a", "r">>,
      <<"f", "o", "o", "\r", "b", "a", "r">>,
      <<"f", "o", "o", "\n">>,
      <<"n", "o", " ", "b", "u", "g", "s">>,
      <<"k", "n", "o", "w", " ", "b", "u", "g">>,
      <<"n", "o", " ", " ", "b", "u", "g">>,
      <<"n", "o", "_", "b", "u", "g">>,
      <<"n", "o", " ", "b", "u", "g", "1">>,
      <<"[", "w", "p", "t", " ", "P", "R", " ", "]", " ", "a", "=", "t",
        "e", "s", "t", "o", "n", "l", "y">>,
      <<"[", "w", "p", "t", " ", "P", "R", " ", "1", "2", "]", "a", "=",
        "t", "e", "s", "t", "o", "n", "l", "y">>,
      <<"[", "W", "P", "T", " ", "P", "R", " ", "1", "2", "]", " ", "a",
        "=", "t", "e", "s", "t", "o", "n", "l", "y">>,
      <<"[", "w", "p", "t", " ", "P", "R", " ", "1", "2", "]", " ", "A",
        "=", "T", "E", "S", "T", "O", "N", "L", "Y">>,
      <<"a", "=", "t", "e", "s", "t", "o", "n", "l", "y", " ", "[", "w",
        "p", "t", " ", "P", "R", " ", "1", "2", "]">> }

Texts == TestTexts \cup EdgeTexts \cup {s \o b : s \in Summaries, b \in Bodies}

TextAuthors == Authors \cup {"", "someone <anon@mozilla.com>"}

InitText ==
    /\ OutsideIdle
    /\ revision_json \in [node : {"445d1a7b"}, desc : Texts, user : TextAuthors,
                           parents : {<<>>}]
    /\ pc = "text"
    /\ bug_id = 0
    /\ att_response = NoResponse
    /\ hist_response = NoResponse
    /\ attachments = <<>>
    /\ bug_history = <<>>
    /\ review_attachments = <<>>
    /\ fetches = <<>>
    /\ result = "none"
    /\ raised = "none"
    /\ payload = NoPayload

\* split_summary(s), lines 208-215: [0] of an empty list raises IndexError
EvalSplitSummary ==
    /\ UNCHANGED outside_classifier
    /\ pc = "text"
    /\ pc' = "split_summary"
    /\ IF splitlines(revision_json.desc) = <<>>
       THEN raised' = "IndexError" /\ result' = result
       ELSE result' = split_summary(revision_json.desc) /\ raised' = raised
    /\ UNCHANGED <<revision_json, bug_id, att_response, hist_response, attachments,
                   bug_history, review_attachments, fetches, payload>>

\* has_no_bug_marker(summary), lines 185-187
EvalNoBugMarker ==
    /\ UNCHANGED outside_classifier
    /\ pc = "text"
    /\ pc' = "has_no_bug_marker"
    /\ result' = has_no_bug_marker(revision_json.desc)
    /\ UNCHANGED <<revision_json, bug_id, att_response, hist_response, attachments,
                   bug_history, review_attachments, fetches, raised, payload>>

\* has_wpt_uplift_markers(commit_author, summary), lines 197-205
EvalWptUpliftMarkers ==
    /\ UNCHANGED outside_classifier
    /\ pc = "text"
    /\ pc' = "has_wpt_uplift_markers"
    /\ result' = has_wpt_uplift_markers(revision_json.user, revision_json.desc)
    /\ UNCHANGED <<revision_json, bug_id, att_response, hist_response, attachments,
                   bug_history, review_attachments, fetches, raised, payload>>

NextText == EvalSplitSummary \/ EvalNoBugMarker \/ EvalWptUpliftMarkers

SpecText == InitText /\ [][NextText]_vars

-----------------------------------------------------------------------------
(* What the claims are stated with. *)

Terminated == pc \in {"done", "raised"}

\* the text of s up to its first line break
FirstLine(s) ==
    LET n == CHOOSE n \in 1..(Len(s) + 1) :
                 /\ \A j \in 1..(n - 1) : s[j] # "\n"
                 /\ (n \in DOMAIN s => s[n] = "\n")
    IN  SubSeq(s, 1, n - 1)

Summary == FirstLine(revision_json.desc)

StartsWithNoCase(s, lit) ==
    /\ Len(s) >= Len(lit)
    /\ \A k \in 1..Len(lit) : Lower(s[k]) = lit[k]

\* "backed out ", "backing out " or "back out " opens the text
BackoutPrefix(s) ==
    \/ StartsWithNoCase(s, <<"b", "a", "c", "k", "e", "d", " ", "o", "u", "t", " ">>)
    \/ StartsWithNoCase(s, <<"b", "a", "c", "k", "i", "n", "g", " ", "o", "u", "t", " ">>)
    \/ StartsWithNoCase(s, <<"b", "a", "c", "k", " ", "o", "u", "t", " ">>)

\* ^back(ed|ing|out)? out  , the pattern as the specification words it
SpecBackoutPattern(s) ==
    \/ BackoutPrefix(s)
    \/ StartsWithNoCase(s, <<"b", "a", "c", "k", "o", "u", "t", " ", "o", "u", "t", " ">>)

IsMerge == Len(revision_json.parents) >= 2

\* what each fetch signalled ("none": not called, or it returned data)
AttRaised ==
    IF att_response = NoResponse THEN "none" ELSE fetch_attachments(att_response).raises

HistRaised ==
    IF hist_response = NoResponse THEN "none" ELSE fetch_bug_history(hist_response).raises

ActivePhabricator(a) ==
    a.is_obsolete = 0 /\ a.content_type = ATTACHMENT_TYPE_PHABRICATOR

ActivePatch(a) == a.is_obsolete = 0 /\ a.is_patch = 1

\* review+ is one of the items of the comma-separated text
ListsReviewPlus(added) ==
    \E i \in DOMAIN added :
        /\ MatchAt(added, i, REVIEW_PLUS)
        /\ (i = 1 \/ added[i - 1] = ",")
        /\ (i + 7 > Len(added) \/ added[i + 7] = ",")

ReviewPlusInHistory(history) ==
    \E g \in DOMAIN history : \E c \in DOMAIN history[g].changes :
        /\ history[g].changes[c].field_name = "flagtypes.name"
        /\ ListsReviewPlus(history[g].changes[c].added)

\* the rule chain of the claim, read off the inputs
FirstMatchingRule ==
    IF BackoutPrefix(Summary) THEN "review_unneeded"
    ELSE IF IsMerge THEN "not_applicable"
    ELSE IF has_no_bug_marker(Summary) THEN "no_bug"
    ELSE IF has_uplift_markers(Summary) THEN "review_unneeded"
    ELSE IF has_wpt_uplift_markers(revision_json.user, Summary) THEN "review_unneeded"
    ELSE IF parse_bugs(Summary) = <<>> THEN "unknown"
    ELSE IF "NotAuthorized" \in {AttRaised, HistRaised} THEN "no_bug"
    ELSE IF {AttRaised, HistRaised} # {"none"} THEN "unknown"
    ELSE IF \E i \in DOMAIN attachments : ActivePhabricator(attachments[i])
         THEN "phabricator"
    ELSE IF /\ \E i \in DOMAIN attachments : ActivePatch(attachments[i])
            /\ ReviewPlusInHistory(bug_history)
         THEN "bmo"
    ELSE "unknown"

-----------------------------------------------------------------------------
(* The claims. *)

\* C1: whenever determine_review_system has ended, it has returned the tag of
\* the first matching rule of the chain backout, merge, 'no bug', uplift,
\* WPT sync, no bug id, NotAuthorized, other fetch failure, Phabricator
\* attachment, reviewed patch, unknown.
C1_FirstMatchingRule == Terminated => result = FirstMatchingRule

\* C2, as claimed: a summary matching ^back(ed|ing|out)? out  is classified
\* review_unneeded.
C2_SpecPatternIsBackout ==
    (Terminated /\ SpecBackoutPattern(Summary)) => result = "review_unneeded"

\* C2, amended: a summary that opens, in any letter case, with "backed out ",
\* "backing out " or "back out " is classified review_unneeded by the first
\* step, whatever the parents and the bug ids.
C2_BackoutIsReviewUnneeded ==
    (pc # "start" /\ BackoutPrefix(Summary))
        => (pc = "done" /\ result = "review_unneeded" /\ fetches = <<>>)

C2_Witness ==
    /\ pc = "done"
    /\ BackoutPrefix(Summary)
    /\ IsMerge
    /\ parse_bugs(Summary) # <<>>
    /\ result = "review_unneeded"

\* C3: a changeset with two or more parents whose summary is no backout is
\* classified not_applicable, whatever else its summary and author say.
C3_MergeIsNotApplicable ==
    (pc # "start" /\ IsMerge /\ ~BackoutPrefix(Summary))
        => (pc = "done" /\ result = "not_applicable" /\ fetches = <<>>)

C3_Witness ==
    /\ pc = "done"
    /\ IsMerge
    /\ ~SpecBackoutPattern(Summary)
    /\ has_no_bug_marker(Summary)
    /\ parse_bugs(Summary) # <<>>
    /\ revision_json.user = WPT_SYNC_BOT
    /\ result = "not_applicable"

\* C4: once the attachment fetch or the history fetch has signalled
\* NotAuthorized, determine_review_system has returned no_bug and no exception
\* leaves it.
C4_NotAuthorizedIsNoBug ==
    ("NotAuthorized" \in {AttRaised, HistRaised})
        => (pc = "done" /\ result = "no_bug" /\ raised = "none")

C4_Witness ==
    /\ AttRaised = "none"
    /\ HistRaised = "NotAuthorized"
    /\ hist_response.status = 200
    /\ result = "no_bug"

\* C5: once a fetch has failed for another reason than NotAuthorized,
\* determine_review_system has returned unknown and no exception leaves it.
C5_FetchFailureIsUnknown ==
    (\E r \in {AttRaised, HistRaised} : r \notin {"none", "NotAuthorized"})
        => (pc = "done" /\ result = "unknown" /\ raised = "none")

\* C6: with an active Phabricator-request attachment on the bug the result is
\* phabricator, whatever the other attachments and the history are.
C6_PhabricatorPreferred ==
    (pc = "done" /\ \E i \in DOMAIN attachments : ActivePhabricator(attachments[i]))
        => result = "phabricator"

C6_Witness ==
    /\ pc = "done"
    /\ \E i, j \in DOMAIN attachments :
          /\ ActivePhabricator(attachments[i])
          /\ attachments[i].is_patch = 0
          /\ ActivePatch(attachments[j])
          /\ attachments[j].content_type = "text/plain"
    /\ ReviewPlusInHistory(bug_history)
    /\ result = "phabricator"

Kept(a) ==
    /\ a.is_obsolete = 0
    /\ \/ a.content_type \in {ATTACHMENT_TYPE_GITHUB, ATTACHMENT_TYPE_PHABRICATOR}
       \/ a.is_patch = 1

KeptPositions == {i \in DOMAIN attachments : Kept(attachments[i])}

C9_NoMozReviewNoObsolete ==
    pc = "done" =>
        \A k \in DOMAIN review_attachments :
            /\ review_attachments[k].content_type # ATTACHMENT_TYPE_MOZREVIEW
            /\ review_attachments[k].is_obsolete = 0


\* C10: the mozreview tag is never the result of a classification and never
\* the reviewSystemUsed value of a payload.
C10_NeverMozReview ==
    /\ result # "mozreview"
    /\ payload.reviewSystemUsed # "mozreview"

\* a MozReview-typed attachment that is not flagged as a patch
MozReviewRequest(a) ==
    a.content_type = ATTACHMENT_TYPE_MOZREVIEW /\ a.is_patch = 0

NotMozReviewRequest(a) == ~MozReviewRequest(a)

\* the tag the bug data stands for: phabricator with an active Phabricator
\* request, else bmo with an active patch and a review+ in the history
TagOfBugData(atts, history) ==
    IF \E i \in DOMAIN atts : ActivePhabricator(atts[i]) THEN "phabricator"
    ELSE IF /\ \E i \in DOMAIN atts : ActivePatch(atts[i])
            /\ ReviewPlusInHistory(history)
         THEN "bmo"
    ELSE "unknown"

\* C11: the result is the tag of the bug data with every MozReview-typed
\* attachment of is_patch = 0 taken out, so adding or removing such attachments
\* never changes it; and a bug with an active MozReview attachment, an active
\* patch attachment, a review+ in its history (and no Phabricator request) is
\* classified bmo.
C11_MozReviewHasNoInfluence ==
    pc = "done" =>
        /\ result = TagOfBugData(SelectSeq(attachments, NotMozReviewRequest),
                                 bug_history)
        /\ (/\ \E m \in DOMAIN attachments :
                   (/\ attachments[m].content_type = ATTACHMENT_TYPE_MOZREVIEW
                    /\ attachments[m].is_obsolete = 0)
             /\ \E i \in DOMAIN attachments : ActivePatch(attachments[i])
             /\ ReviewPlusInHistory(bug_history)
             /\ ~\E j \in DOMAIN attachments : ActivePhabricator(attachments[j]))
            => result = "bmo"

C11_Witness ==
    /\ pc = "done"
    /\ Len(attachments) = 2
    /\ MozReviewRequest(attachments[1])
    /\ attachments[1].is_obsolete = 0
    /\ ActivePatch(attachments[2])
    /\ attachments[2].content_type = "text/plain"
    /\ ReviewPlusInHistory(bug_history)
    /\ result = "bmo"

\* one of the five checks made on the changeset alone matches
LocalCheckMatches ==
    \/ BackoutPrefix(Summary)
    \/ IsMerge
    \/ has_no_bug_marker(Summary)
    \/ has_uplift_markers(Summary)
    \/ has_wpt_uplift_markers(revision_json.user, Summary)

DecidedLocally == LocalCheckMatches \/ parse_bugs(Summary) = <<>>

\* C12: when a local check matches or the summary holds no bug id, neither
\* fetch_attachments nor fetch_bug_history is ever called; a fetch is made only
\* after the five local checks failed and a bug id was extracted, and the
\* attachment fetch comes before the history fetch.
C12_NoFetchWhenDecidedLocally ==
    /\ DecidedLocally => fetches = <<>>
    /\ (pc # "start" /\ DecidedLocally) => (pc = "done" /\ raised = "none")
    /\ fetches # <<>> =>
          /\ ~LocalCheckMatches
          /\ parse_bugs(Summary) # <<>>
          /\ bug_id = parse_bugs(Summary)[1]
          /\ fetches \in {<<"fetch_attachments">>,
                          <<"fetch_attachments", "fetch_bug_history">>}

C12_Witness ==
    /\ pc = "done"
    /\ has_uplift_markers(Summary)
    /\ parse_bugs(Summary) # <<>>
    /\ ~BackoutPrefix(Summary) /\ ~IsMerge /\ ~has_no_bug_marker(Summary)
    /\ result = "review_unneeded"
    /\ fetches = <<>>

\* a fetch was made for a changeset that no local check decides
C12_WitnessFetch ==
    /\ pc = "done"
    /\ ~DecidedLocally
    /\ fetches = <<"fetch_attachments", "fetch_bug_history">>

\* what determine_review_system gives when it runs alone on a changeset and
\* on the two answers of Bugzilla: a tag, or "raise" for an escaping exception
AloneOutcome(rev, att, hist) ==
    LET d == LocalDecision(rev)
        a == fetch_attachments(att)
        h == fetch_bug_history(hist)
    IN  IF d # "fetch" THEN d
        ELSE IF a.raises # "none" THEN ExceptDecision(a.raises)
        ELSE IF h.raises # "none" THEN ExceptDecision(h.raises)
        ELSE BugDataDecision(collect_review_attachments(a.value), h.value)

CallEnded(c) == calls[c].pc \in {"done", "raised"}

CallOutcome(c) == IF calls[c].pc = "raised" THEN "raise" ELSE calls[c].result

Scanned == parser # <<>> /\ parser.pos = Len(patchtext) + 1

IsDiffLine(i) == StartsWith(patchtext[i], <<"d", "i", "f", "f", " ">>)

IsHunkHeader(i) == StartsWith(patchtext[i], <<"@", "@">>)

\* the ---/+++ pair at i adds to the header that a "diff " line opened: no
\* hunk header, no other pair and no other "diff " line lies in between
PairOfDiffHeader(i) ==
    /\ PairAt(patchtext, i)
    /\ \E j \in 1..(i - 1) :
          /\ IsDiffLine(j)
          /\ \A k \in (j + 1)..(i - 1) :
                ~IsDiffLine(k) /\ ~IsHunkHeader(k) /\ ~PairAt(patchtext, k)

\* the lines at which a file header starts
FileHeaders ==
    {i \in DOMAIN patchtext :
        IsDiffLine(i) \/ (PairAt(patchtext, i) /\ ~PairOfDiffHeader(i))}

\* line i belongs to a file header
HeaderLine(i) ==
    IsDiffLine(i) \/ PairAt(patchtext, i) \/ PairAt(patchtext, i - 1)

\* line i lies in the body of a hunk of a file
InHunkBody(i) ==
    \E j \in 1..(i - 1) :
        /\ IsHunkHeader(j)
        /\ ~HeaderLine(j)
        /\ \E f \in FileHeaders : f < j
        /\ \A k \in (j + 1)..i : ~HeaderLine(k)

SignedLines(sign) ==
    {i \in DOMAIN patchtext :
        InHunkBody(i) /\ patchtext[i] # <<>> /\ patchtext[i][1] = sign}

\* the file opened at header f has no hunk
NoHunkIn(f) ==
    \A j \in (f + 1)..Len(patchtext) :
        IsHunkHeader(j) => \E g \in FileHeaders : f < g /\ g < j

\* C14: files_changed goes up by exactly one at each file header, with or
\* without hunks after it: once the text is read, files_changed is the number
\* of file headers, and a text that is one header without any hunk (a binary
\* change, a pure rename) gives one changed file, no addition and no deletion.
C14_OneFilePerHeader ==
    /\ parser # <<>> =>
          parser.files_changed
              = Cardinality({f \in FileHeaders : f < parser.pos})
    /\ (Scanned /\ Cardinality(FileHeaders) = 1 /\ \A f \in FileHeaders : NoHunkIn(f))
          => /\ parser.files_changed = 1
             /\ parser.additions = 0
             /\ parser.deletions = 0

\* one file header (the diff line, a binary marker and the ---/+++ pair) and
\* no hunk
C14_Witness ==
    /\ Scanned
    /\ patchtext = <<DIFF_LINE, <<"G", "I", "T">>, OLD_LINE, NEW_LINE>>
    /\ parser.files_changed = 1
    /\ parser.additions = 0

\* a fully deleted file: one changed file and deletions only
C14_WitnessDeleted ==
    /\ Scanned
    /\ patchtext = <<OLD_LINE, NEW_LINE, HUNK_LINE, <<"-", "x">>>>
    /\ parser.files_changed = 1
    /\ parser.additions = 0
    /\ parser.deletions = 1

\* C15: additions (deletions) is the number of lines read so far that lie in
\* the body of a hunk of a file, open with "+" ("-") and belong to no file
\* header; a line whose own text opens with a sign counts once, and context
\* lines, hunk headers and lines outside a hunk body never count.
C15_CountsByFirstCharacter ==
    parser # <<>> =>
        /\ parser.additions
              = Cardinality({i \in SignedLines("+") : i < parser.pos})
        /\ parser.deletions
              = Cardinality({i \in SignedLines("-") : i < parser.pos})

C15_Witness ==
    /\ Scanned
    /\ patchtext = <<DIFF_LINE, HUNK_LINE, <<"-", "+", "x">>, <<"+", "-", "x">>>>
    /\ parser.additions = 1
    /\ parser.deletions = 1

\* C16: diffstat never raises, its three counts are never negative, and a
\* text without any file header gives 0 changed files, 0 additions and 0
\* deletions.
C16_NoErrorOnMalformedText ==
    parser # <<>> =>
        /\ parser.state # "raised"
        /\ parser.files_changed >= 0 /\ parser.additions >= 0 /\ parser.deletions >= 0
        /\ (Scanned /\ FileHeaders = {}) =>
              /\ parser.files_changed = 0
              /\ parser.additions = 0
              /\ parser.deletions = 0

\* a text of a hunk header, signed lines and an empty line, but no file header
C16_Witness ==
    /\ Scanned
    /\ patchtext = <<HUNK_LINE, <<"+", "x">>, <<>>, <<"-", "x">>>>
    /\ parser.files_changed = 0 /\ parser.additions = 0 /\ parser.deletions = 0

\* an empty line inside the hunk of a file has been read
C16_WitnessEmptyLine ==
    /\ Scanned
    /\ patchtext = <<DIFF_LINE, HUNK_LINE, <<>>, <<"+", "x">>>>
    /\ parser.additions = 1

\* a payload has been built
PayloadBuilt == pc = "done" /\ payload # NoPayload

\* C17: the payload of a changeset with two or more parents has a diffstat
\* field of None and no diffstat was computed for it; the payload of any other
\* changeset has a diffstat field computed exactly once from its patch text.
C17_DiffstatInPayload ==
    PayloadBuilt =>
        /\ "diffstat" \in DOMAIN payload
        /\ LET computed ==
                  Cardinality({k \in DOMAIN fetches :
                                   fetches[k] = "diffstat_for_changeset"})
           IN  IF IsMerge
               THEN computed = 0 /\ payload.diffstat = "None"
               ELSE computed = 1 /\ payload.diffstat # "None"

\* C18: the payload has a landingSystem field, which is the landingsystem
\* value of the changeset JSON, and None when that value is null or missing.
C18_LandingSystemInPayload ==
    PayloadBuilt =>
        /\ "landingSystem" \in DOMAIN payload
        /\ payload.landingSystem =
              IF "landingsystem" \in DOMAIN revision_json
              THEN revision_json.landingsystem
              ELSE "None"

IsPayloadCall(e) == e.op = "payload_for_changeset"

IsSendPing(e) == e.op = "send_ping"

IsAck(e) == e.op = "ack"

\* the message is a changegroup.1 with exactly one push
ProcessedPush ==
    body # <<>> /\ body.type = "changegroup.1" /\ Len(body.pushlog_pushes) = 1

\* the list changesets_for_pushid returned
PushChangesets == events[1].returned

\* C19: for a changegroup.1 message with one push and no_send false, the
\* pings sent so far are those of the changesets handled so far, one per
\* changeset, in the order of changesets_for_pushid, each with the changeset
\* id as its ping id and the payload built for that changeset; when the call
\* has returned, that is one ping for every changeset of the push.
C19_OnePingPerChangeset ==
    (ProcessedPush /\ ~no_send /\ pulse_pc \in {"loop", "done"}) =>
        LET pings == SelectSeq(events, IsSendPing)
            built == SelectSeq(events, IsPayloadCall)
            handled == Len(PushChangesets) - Len(todo)
        IN  /\ Len(pings) = handled
            /\ Len(built) = handled
            /\ \A i \in 1..handled :
                  /\ pings[i].id = PushChangesets[i]
                  /\ built[i].id = PushChangesets[i]
                  /\ pings[i].ping = built[i].ping
                  /\ pings[i].ping.changesetID = PushChangesets[i]
            /\ pulse_pc = "done" => handled = Len(PushChangesets)

C19_Witness ==
    /\ ProcessedPush /\ ~no_send /\ pulse_pc = "done"
    /\ PushChangesets = <<"ebe998", "ab1cd2">>
    /\ SelectSeq(events, IsSendPing)[1].ping.reviewSystemUsed = "bmo"
    /\ SelectSeq(events, IsSendPing)[2].id = "ab1cd2"

\* the case of the test: one changeset, one ping
C19_WitnessOne ==
    /\ ProcessedPush /\ ~no_send /\ pulse_pc = "done"
    /\ PushChangesets = <<"ab1cd2">>
    /\ Len(SelectSeq(events, IsSendPing)) = 1

\* C20: with no_send false, the message is acknowledged at most once, never
\* before the call has come to its end, and always as the last call made, so
\* after the ping of the last changeset; a call that has returned has
\* acknowledged exactly once.
C20_AckOnceAtTheEnd ==
    (body # <<>> /\ ~no_send) =>
        LET acks == {k \in DOMAIN events : IsAck(events[k])}
        IN  /\ Cardinality(acks) <= 1
            /\ \A k \in acks : k = Len(events) /\ pulse_pc = "done"
            /\ pulse_pc = "done" => Cardinality(acks) = 1
            /\ (pulse_pc = "done" /\ ProcessedPush) =>
                  Len(SelectSeq(events, IsSendPing)) = Len(PushChangesets)

C20_Witness ==
    /\ ProcessedPush /\ ~no_send /\ pulse_pc = "done"
    /\ Len(events) = 6
    /\ IsSendPing(events[5])
    /\ IsAck(events[6])

\* the text given to the function under evaluation
Text == revision_json.desc

\* 'no bug', in any letter case, stands in s at position i as a phrase of its
\* own: no letter, digit or underscore right before it or right after it
StandaloneNoBugAt(s, i) ==
    /\ i + 5 <= Len(s)
    /\ StartsWithNoCase(SubSeq(s, i, i + 5), <<"n", "o", " ", "b", "u", "g">>)
    /\ (i = 1 \/ ~IsWord(s[i - 1]))
    /\ (i + 5 = Len(s) \/ ~IsWord(s[i + 6]))

\* C21: has_no_bug_marker(summary) is true exactly when the summary holds
\* 'no bug' as a standalone phrase, in any letter case, delimited by word
\* boundaries.
C21_NoBugIsStandalonePhrase ==
    pc = "has_no_bug_marker" =>
        (result <=> \E i \in DOMAIN Text : StandaloneNoBugAt(Text, i))

C21_Witness ==
    /\ pc = "has_no_bug_marker"
    /\ Text = <<"b", "a", "r", " ", "b", "a", "z", " ", "-", " ", "N", "o", " ", "b", "u", "g", ",", " ", "b", "l", "a", "h">>
    /\ result = TRUE

\* the two words are there, but not next to each other
C21_WitnessApart ==
    /\ pc = "has_no_bug_marker"
    /\ Text = <<"B", "u", "g", " ", "1", "2", "3", "4", " ", "-", " ", "N", "o", " ", "b", "l", "a", "h", " ", "f", "o", "r", " ", "b", "u", "g">>
    /\ result = FALSE

HasLineBreak(s) == \E i \in DOMAIN s : IsLineBreak(s[i])

\* s holds '[wpt PR <digits>]' and, somewhere after it, ' a=testonly'
WptTagThenTestonly(s) ==
    \E i, q, k \in DOMAIN s :
        /\ MatchAt(s, i, <<"[", "w", "p", "t", " ", "P", "R", " ">>)
        /\ q >= i + 8
        /\ \A m \in (i + 8)..q : IsDigit(s[m])
        /\ MatchAt(s, q + 1, <<"]">>)
        /\ k >= q + 2
        /\ MatchAt(s, k, <<" ", "a", "=", "t", "e", "s", "t", "o", "n", "l", "y">>)

\* C22: has_wpt_uplift_markers(author, summary) is true exactly when the
\* summary holds '[wpt PR <digits>]' followed later by ' a=testonly' or the
\* author is exactly 'moz-wptsync-bot <wptsync@mozilla.com>'.
C22_WptMarkerOrBotAuthor ==
    (pc = "has_wpt_uplift_markers" /\ ~HasLineBreak(Text)) =>
        (result <=>
            \/ WptTagThenTestonly(Text)
            \/ revision_json.user = "moz-wptsync-bot <wptsync@mozilla.com>")

\* with any other author, the tag followed by a=testonly
C22_Witness ==
    /\ pc = "has_wpt_uplift_markers"
    /\ Text = <<"B", "u", "g", " ", "1", "2", "3", " ", "-", " ", "[", "w", "p", "t", " ", "P", "R", " ", "1", "2", "3", "]", " ", "f", "o", "o", " ", "b", "a", "r", " ", "a", "=", "t", "e", "s", "t", "o", "n", "l", "y", " ", "e", "x", "t", "r", "a">>
    /\ revision_json.user = ""
    /\ result = TRUE

\* the bot as the author of a text without any marker
C22_WitnessAuthor ==
    /\ pc = "has_wpt_uplift_markers"
    /\ Text = <<"s", "u", "m", "m", "a", "r", "y">>
    /\ revision_json.user = "moz-wptsync-bot <wptsync@mozilla.com>"
    /\ result = TRUE

\* the tag alone
C22_WitnessTagOnly ==
    /\ pc = "has_wpt_uplift_markers"
    /\ Text = <<"B", "u", "g", " ", "1", "2", "3", " ", "-", " ", "[", "w", "p", "t", " ", "P", "R", " ", "1", "2", "3", "]">>
    /\ revision_json.user = "someone <anon@mozilla.com>"
    /\ result = FALSE

\* the text of s before its first line break, all of s when it has none
UpToFirstLineBreak(s) ==
    LET breaks == {i \in DOMAIN s : IsLineBreak(s[i])}
    IN  IF breaks = {} THEN s
        ELSE SubSeq(s, 1, (CHOOSE i \in breaks : \A j \in breaks : i <= j) - 1)

\* C23: for every description s, split_summary(s) returns the text of s up
\* to its first line break, and s itself when s holds no line break.
C23_SplitSummaryIsFirstLine ==
    pc = "split_summary" =>
        /\ raised = "none"
        /\ result = UpToFirstLineBreak(Text)

\* the same for the descriptions that are not empty
C23_NonEmptyFirstLine ==
    (pc = "split_summary" /\ Text # <<>>) =>
        /\ raised = "none"
        /\ result = UpToFirstLineBreak(Text)

\* how many times the provider call named op was made
TimesCalled(op) == Cardinality({k \in DOMAIN fetches : fetches[k] = op})

\* C24: in one call of determine_review_system each of fetch_attachments and
\* fetch_bug_history is made at most once, the attachments are fetched before
\* the history, and after a failed attachment fetch the history is never
\* fetched.
C24_EachFetchAtMostOnce ==
    /\ TimesCalled("fetch_attachments") <= 1
    /\ TimesCalled("fetch_bug_history") <= 1
    /\ TimesCalled("fetch_bug_history") = 1 =>
          /\ fetches[1] = "fetch_attachments"
          /\ AttRaised = "none"
    /\ (AttRaised # "none" /\ Terminated) => fetches = <<"fetch_attachments">>
    /\ (HistRaised # "none" /\ Terminated) =>
          fetches = <<"fetch_attachments", "fetch_bug_history">>

C24_Witness ==
    /\ Terminated
    /\ AttRaised = "HTTPError"
    /\ fetches = <<"fetch_attachments">>
    /\ result = "unknown"

\* the history fetch failed: it was not made again
C24_WitnessHistory ==
    /\ Terminated
    /\ HistRaised = "RetryError"
    /\ fetches = <<"fetch_attachments", "fetch_bug_history">>

\* the payload_for_changeset calls that returned a payload
IsBuiltPayload(e) == e.op = "payload_for_changeset" /\ "ping" \in DOMAIN e

\* C25: with no_send true, message.ack and send_ping are never called,
\* whatever the message is, and when a processed push has been gone through,
\* a payload was built for each of its changesets, in order.
C25_NoSendNeitherAcksNorSends ==
    (body # <<>> /\ no_send) =>
        /\ \A k \in DOMAIN events : ~IsAck(events[k]) /\ ~IsSendPing(events[k])
        /\ (ProcessedPush /\ pulse_pc = "done") =>
              LET built == SelectSeq(events, IsBuiltPayload)
              IN  /\ Len(built) = Len(PushChangesets)
                  /\ \A i \in DOMAIN built :
                        /\ built[i].id = PushChangesets[i]
                        /\ built[i].ping.changesetID = PushChangesets[i]

C25_Witness ==
    /\ no_send /\ ProcessedPush /\ pulse_pc = "done"
    /\ Len(PushChangesets) = 2
    /\ Len(events) = 3

\* a skipped message under no_send: nothing at all is called
C25_WitnessSkipped ==
    /\ body # <<>> /\ no_send /\ ~ProcessedPush /\ pulse_pc = "done"
    /\ Len(body.pushlog_pushes) = 2
    /\ events = <<>>

\* C26: a message of another type than changegroup.1, or with no push or
\* more than one push, is acknowledged once (not at all under no_send) and
\* skipped: no changeset list is fetched, no payload is built, no ping is sent.
C26_SkippedMessageIsAcked ==
    (body # <<>> /\ ~ProcessedPush /\ pulse_pc # "start") =>
        /\ pulse_pc = "done"
        /\ todo = <<>>
        /\ events = IF no_send THEN <<>>
                    ELSE <<Event("ack", "message", NoPayload)>>

C26_Witness ==
    /\ body # <<>> /\ ~no_send /\ pulse_pc = "done"
    /\ body.type = "changegroup.1"
    /\ Len(body.pushlog_pushes) = 2
    /\ Len(events) = 1 /\ IsAck(events[1])

\* a message of another type, with one push
C26_WitnessType ==
    /\ body # <<>> /\ ~no_send /\ pulse_pc = "done"
    /\ body.type = "newrepo.1"
    /\ Len(body.pushlog_pushes) = 1
    /\ Len(events) = 1 /\ IsAck(events[1])

\* C27: when changesets_for_pushid or payload_for_changeset has raised,
\* message.ack has not been called, and the pings sent are those of the
\* changesets handled before the failure.
C27_NoAckAfterFailure ==
    (body # <<>> /\ pulse_pc = "raised") =>
        /\ \A k \in DOMAIN events : ~IsAck(events[k])
        /\ "raises" \in DOMAIN events[Len(events)]
        /\ events[Len(events)].raises # "none"
        /\ LET pings == SelectSeq(events, IsSendPing)
           IN  IF Len(events) = 1 THEN pings = <<>>
               ELSE /\ Len(pings) = IF no_send THEN 0
                                    ELSE Len(PushChangesets) - Len(todo)
                    /\ \A i \in DOMAIN pings : pings[i].id = PushChangesets[i]

\* the payload of the second changeset failed after the first ping was sent
C27_Witness ==
    /\ body # <<>> /\ ~no_send /\ pulse_pc = "raised"
    /\ Len(PushChangesets) = 2
    /\ Len(todo) = 1
    /\ Len(events) = 4
    /\ IsSendPing(events[3])
    /\ events[4].raises = "NoSuchChangeset"

\* changesets_for_pushid failed
C27_WitnessPushlog ==
    /\ body # <<>> /\ ~no_send /\ pulse_pc = "raised"
    /\ Len(events) = 1
    /\ events[1].op = "changesets_for_pushid"
    /\ events[1].raises = "HTTPError"

\* C28: when hg.mozilla.org answers 404, dump_telemetry catches the
\* NoSuchChangeset of payload_for_changeset, prints the 'does not exist in
\* repository' error line and exits with status 1; the exception does not
\* leave the command.
C28_DumpTelemetryCatchesNoSuchChangeset ==
    (pc = "exit" /\ raised = "NoSuchChangeset") =>
        /\ command.printed = "error"
        /\ command.exit_status = "1"
        /\ command.propagated = "none"

\* what the command does instead: the exception leaves dump_telemetry,
\* nothing having been printed by it
C28_NoSuchChangesetPropagates ==
    (pc = "exit" /\ raised = "NoSuchChangeset") =>
        /\ command.printed = "none"
        /\ command.propagated = "committelemetry.telemetry.NoSuchChangeset"

C28_Witness ==
    /\ pc = "exit"
    /\ raised = "NoSuchChangeset"
    /\ fetches = <<>>

\* the tag classifier.determine_review_system returns for the changeset of
\* the state and the Bugzilla responses of the state
ClassifierTag ==
    LET d == LocalDecision(revision_json)
        a == fetch_attachments(att_response)
        h == fetch_bug_history(hist_response)
    IN  IF d # "fetch" THEN d
        ELSE IF a.raises # "none" THEN ExceptDecision(a.raises)
        ELSE IF h.raises # "none" THEN ExceptDecision(h.raises)
        ELSE BugDataDecision(collect_review_attachments(a.value), h.value)

\* C29: the tag telemetry.determine_review_system returns to
\* payload_for_changeset is the tag classifier.determine_review_system
\* returns for the same changeset JSON and bug data, the bug looked up being
\* the first bug id of the summary.
C29_TelemetryTagIsClassifierTag ==
    pc = "done" =>
        IF LocalDecision(revision_json) # "fetch"
        THEN /\ fetches = <<>>
             /\ result = LocalDecision(revision_json)
        ELSE /\ att_response # NoResponse
             /\ bug_id = parse_bugs(split_summary(revision_json.desc))[1]
             /\ (hist_response # NoResponse
                    \/ fetch_attachments(att_response).raises # "none")
             /\ result = ClassifierTag

\* a backout gets not_applicable from telemetry.determine_review_system
C29_BackoutIsNotApplicable ==
    (pc = "done" /\ has_backout_markers(revision_json.desc)) =>
        result = "not_applicable"

C29_Witness ==
    /\ pc = "done"
    /\ has_backout_markers(split_summary(revision_json.desc))
    /\ LocalDecision(revision_json) = "review_unneeded"
    /\ result = "not_applicable"

\* a response with a JSON body was received for the call
Answered(response) == response # NoResponse /\ response.transport = "response"

C30_WitnessHistory ==
    /\ hist_response.status = 200
    /\ hist_response.error_key
    /\ pc = "done"
    /\ result = "no_bug"

C30_WitnessHTTPError ==
    /\ att_response.status = 404
    /\ ~att_response.error_key
    /\ pc = "done"
    /\ result = "unknown"

=============================================================================
